---- MODULE Spec2Model ----
(***************************************************************************)
(* Model of prometheus/gen_go_collector_metrics_set.go: the generator that *)
(* checks the Go version, computes the cardinality of the runtime/metrics  *)
(* catalog (rmCardinality) and renders the expected-name table and the     *)
(* cardinality into go_collector_metrics_go1NN_test.go.                    *)
(***************************************************************************)
EXTENDS Integers, Sequences, FiniteSets, TLC

(* ---------------------------- bounds ----------------------------------- *)
\* Largest number of descriptions metrics.All() returns in the model.
MaxDescs == 2

(* ---------------------- float64 bucket boundaries ---------------------- *)
\* The finite boundary values of the model, in ascending order.
FiniteVals == {1, 5}

\* math.Inf(sign): +Inf is above and -Inf below every finite value.
Inf(sign) == IF sign >= 0 THEN 1000 * 1000 ELSE 0 - 1000 * 1000

Floats == {Inf(-1)} \cup FiniteVals \cup {Inf(1)}

\* Strictly ascending boundary arrays over Floats (the empty one included:
\* it is the defective array the len(buckets)-1 index cannot survive).
BoundaryArrays ==
    {b \in UNION {[1..n -> Floats] : n \in 0..Cardinality(Floats)} :
        \A k \in 1..(Len(b) - 1) : b[k] < b[k + 1]}

(* ------------------------- runtime/metrics ----------------------------- *)
KindUint64 == "KindUint64"
KindFloat64 == "KindFloat64"
KindFloat64Histogram == "KindFloat64Histogram"
KindBad == "KindBad"

Kinds == {KindUint64, KindFloat64, KindFloat64Histogram}

\* The unit of the k-th metric name.
UnitOf(k) == <<"bytes", "seconds", "objects">>[(k % 3) + 1]

\* The k-th metric name "/m<k>:<unit>", as its sequence of tokens.
NameOf(k) == <<"/m", ToString(k), ":", UnitOf(k)>>

AllNames == {NameOf(k) : k \in 1..MaxDescs}

\* The zero metrics.Value a fresh metrics.Sample holds.
ZeroValue == [kind |-> KindBad, Buckets |-> <<>>]

\* What metrics.Read may leave in the Value of a histogram sample: a
\* Float64Histogram with its boundaries, or KindBad (the name is not served).
HistValues ==
    {[kind |-> KindFloat64Histogram, Buckets |-> b] : b \in BoundaryArrays}
        \cup {ZeroValue}

\* metrics.All(): descriptions sorted by name, the k-th one named NameOf(k).
Catalogs ==
    UNION {{[k \in 1..n |-> [Name |-> NameOf(k), Kind |-> kinds[k]]] :
              kinds \in [1..n -> Kinds]} : n \in 0..MaxDescs}

(* --------------------------- helpers ----------------------------------- *)
\* strings.IndexRune(name, r) over the tokens of name, 0-based; -1 if absent.
RECURSIVE IndexRuneFrom(_, _, _)
IndexRuneFrom(name, r, k) ==
    IF k > Len(name) THEN 0 - 1
    ELSE IF name[k] = r THEN k - 1
    ELSE IndexRuneFrom(name, r, k + 1)

IndexRune(name, r) == IndexRuneFrom(name, r, 1)

\* name[from:] with a 0-based index.
SliceFrom(name, from) == SubSeq(name, from + 1, Len(name))

\* internal.RuntimeMetricsBucketsForUnit: the boundaries the fold works on.
RuntimeMetricsBucketsForUnit(b, unit) == b

VARIABLES
    osArgs,         \* os.Args[1:], the command line after the program name
    runtimeVersion, \* runtime.Version()
    catalog,        \* metrics.All()
    rtValues,       \* what metrics.Read serves, by descriptor name
    promTable,      \* the static naming table behind RuntimeMetricsToProm
    pc,             \* position in main / rmCardinality
    tv, gv, v,      \* main: parsed given version, parsed tool version, goVersion
    cardinality,    \* rmCardinality: the running total
    histograms,     \* rmCardinality: []metrics.Sample
    di,             \* rmCardinality: index of the first loop (1-based)
    hi,             \* rmCardinality: index i of the second loop (1-based)
    buckets,        \* rmCardinality: the buckets of the current iteration
    entered,        \* history: the running total when iteration hi began
    contrib,        \* history: the buckets of each finished iteration and what it added
    results,        \* the totals successive invocations returned, in order
    givenVersion,   \* main: the requested version string
    toolVersion,    \* main: the running version string
    data,           \* main: the struct handed to testFile.Execute
    buf,            \* main: the rendered name table and constant
    file            \* the artifact os.WriteFile left on disk

vars == <<osArgs, runtimeVersion, catalog, rtValues, promTable, pc, tv, gv, v,
          cardinality, histograms, di, hi, buckets, entered, contrib, results,
          givenVersion, toolVersion, data, buf, file>>

env == <<osArgs, runtimeVersion, catalog, rtValues, promTable>>
mainLocals == <<givenVersion, toolVersion, tv, gv, v, data, buf, file>>
calls == <<results>>
rmLocals == <<cardinality, histograms, di, hi, buckets, entered, contrib>>

(* --------------------------- rmCardinality ----------------------------- *)
\* Mutation of rmEntry: the running total survives from the previous call.
rmEntry_KeepsTotal ==
    /\ pc = "rm_entry"
    /\ histograms' = <<>>
    /\ di' = 1
    /\ hi' = 0
    /\ buckets' = <<>>
    /\ entered' = 0
    /\ contrib' = <<>>
    /\ pc' = "rm_descs"
    /\ UNCHANGED <<env, mainLocals, calls, cardinality>>

\* line 105: cardinality := 0; line 110: var histograms []metrics.Sample
rmEntry ==
    /\ pc = "rm_entry"
    /\ cardinality' = 0
    /\ histograms' = <<>>
    /\ di' = 1
    /\ hi' = 0
    /\ buckets' = <<>>
    /\ entered' = 0
    /\ contrib' = <<>>
    /\ pc' = "rm_descs"
    /\ UNCHANGED <<env, mainLocals, calls>>

\* lines 111-113: a histogram description is collected as a sample to read.
rmDescHistogram ==
    /\ pc = "rm_descs"
    /\ di <= Len(catalog)
    /\ catalog[di].Kind = KindFloat64Histogram
    /\ histograms' =
         Append(histograms, [Name |-> catalog[di].Name, Value |-> ZeroValue])
    /\ di' = di + 1
    /\ UNCHANGED <<env, mainLocals, calls, pc, cardinality, hi, buckets, entered, contrib>>

\* Mutation of rmDescScalar: only KindUint64 descriptions are counted.
rmDescScalar_Uint64Only ==
    /\ pc = "rm_descs"
    /\ di <= Len(catalog)
    /\ catalog[di].Kind # KindFloat64Histogram
    /\ cardinality' = IF catalog[di].Kind = KindUint64
                      THEN cardinality + 1 ELSE cardinality
    /\ di' = di + 1
    /\ UNCHANGED <<env, mainLocals, calls, pc, histograms, hi, buckets, entered, contrib>>

\* Mutation of rmDescScalar: a description the naming table excludes is
\* not counted.
rmDescScalar_SkipsExcluded ==
    /\ pc = "rm_descs"
    /\ di <= Len(catalog)
    /\ catalog[di].Kind # KindFloat64Histogram
    /\ cardinality' = IF promTable[catalog[di].Name]
                      THEN cardinality + 1 ELSE cardinality
    /\ di' = di + 1
    /\ UNCHANGED <<env, mainLocals, calls, pc, histograms, hi, buckets, entered, contrib>>

\* lines 114-116: any other description counts one series.
rmDescScalar ==
    /\ pc = "rm_descs"
    /\ di <= Len(catalog)
    /\ catalog[di].Kind # KindFloat64Histogram
    /\ cardinality' = cardinality + 1
    /\ di' = di + 1
    /\ UNCHANGED <<env, mainLocals, calls, pc, histograms, hi, buckets, entered, contrib>>

\* line 120: metrics.Read(histograms) fills every sample's Value.
rmRead ==
    /\ pc = "rm_descs"
    /\ di > Len(catalog)
    /\ histograms' =
         [k \in 1..Len(histograms) |->
            [Name |-> histograms[k].Name, Value |-> rtValues[histograms[k].Name]]]
    /\ hi' = 1
    /\ pc' = "rm_hist"
    /\ UNCHANGED <<env, mainLocals, calls, cardinality, di, buckets, entered,
                   contrib>>

\* line 124: Value.Float64Histogram() panics unless the kind is a histogram.
rmPanicKind ==
    /\ pc = "rm_hist"
    /\ hi <= Len(histograms)
    /\ histograms[hi].Value.kind # KindFloat64Histogram
    /\ pc' = "panic"
    /\ UNCHANGED <<env, mainLocals, calls, cardinality, histograms, di, hi,
                   buckets, entered, contrib>>

\* Mutation of rmHistAdd: the implicit infinity bucket is forgotten (+2).
rmHistAdd_NoInfBucket ==
    /\ pc = "rm_hist"
    /\ hi <= Len(histograms)
    /\ histograms[hi].Value.kind = KindFloat64Histogram
    /\ LET name == histograms[hi].Name
           b == RuntimeMetricsBucketsForUnit(
                    histograms[hi].Value.Buckets,
                    SliceFrom(name, IndexRune(name, ":") + 1))
       IN /\ buckets' = b
          /\ cardinality' = cardinality + Len(b) + 2
    /\ entered' = cardinality
    /\ pc' = "rm_dec"
    /\ UNCHANGED <<env, mainLocals, calls, histograms, di, hi, contrib>>

\* lines 122-127: buckets for the unit; plus total count, sum and the
\* implicit infinity bucket.
rmHistAdd ==
    /\ pc = "rm_hist"
    /\ hi <= Len(histograms)
    /\ histograms[hi].Value.kind = KindFloat64Histogram
    /\ LET name == histograms[hi].Name
           b == RuntimeMetricsBucketsForUnit(
                    histograms[hi].Value.Buckets,
                    SliceFrom(name, IndexRune(name, ":") + 1))
       IN /\ buckets' = b
          /\ cardinality' = cardinality + Len(b) + 3
    /\ entered' = cardinality
    /\ pc' = "rm_dec"
    /\ UNCHANGED <<env, mainLocals, calls, histograms, di, hi, contrib>>

\* Mutation of rmHistDec: the unconditional decrement is missing.
rmHistDec_Skipped ==
    /\ pc = "rm_dec"
    /\ pc' = "rm_last"
    /\ UNCHANGED <<env, mainLocals, calls, cardinality, histograms, di, hi,
                   buckets, entered, contrib>>

\* line 135: one fewer bucket than boundaries.
rmHistDec ==
    /\ pc = "rm_dec"
    /\ cardinality' = cardinality - 1
    /\ pc' = "rm_last"
    /\ UNCHANGED <<env, mainLocals, calls, histograms, di, hi, buckets, entered, contrib>>

\* Mutation of rmPanicIndex: an empty slice is skipped instead of indexed.
rmPanicIndex_Tolerated ==
    /\ pc = "rm_last"
    /\ Len(buckets) = 0
    /\ hi' = hi + 1
    /\ pc' = "rm_hist"
    /\ UNCHANGED <<env, mainLocals, calls, cardinality, histograms, di,
                   buckets, entered, contrib>>

\* line 136: buckets[len(buckets)-1] is out of range on an empty slice.
rmPanicIndex ==
    /\ pc = "rm_last"
    /\ Len(buckets) = 0
    /\ pc' = "panic"
    /\ UNCHANGED <<env, mainLocals, calls, cardinality, histograms, di, hi,
                   buckets, entered, contrib>>

\* Mutation of rmHistLast: an explicit +Inf boundary is counted again.
rmHistLast_KeepsInf ==
    /\ pc = "rm_last"
    /\ Len(buckets) > 0
    /\ pc' = "rm_first"
    /\ UNCHANGED <<env, mainLocals, calls, cardinality, histograms, di, hi,
                   buckets, entered, contrib>>

\* lines 136-139: the +Inf boundary was already counted separately.
rmHistLast ==
    /\ pc = "rm_last"
    /\ Len(buckets) > 0
    /\ cardinality' = IF buckets[Len(buckets)] = Inf(1)
                      THEN cardinality - 1 ELSE cardinality
    /\ pc' = "rm_first"
    /\ UNCHANGED <<env, mainLocals, calls, histograms, di, hi, buckets, entered, contrib>>

\* Mutation of rmHistFirst: a -Inf boundary keeps its bucket.
rmHistFirst_KeepsNegInf ==
    /\ pc = "rm_first"
    /\ contrib' = Append(contrib, [buckets |-> buckets,
                                  added |-> cardinality - entered])
    /\ hi' = hi + 1
    /\ pc' = "rm_hist"
    /\ UNCHANGED <<env, mainLocals, calls, cardinality, histograms, di,
                   buckets, entered>>

\* lines 143-145: no bucket for -Inf; then the next i.
rmHistFirst ==
    /\ pc = "rm_first"
    /\ cardinality' = IF buckets[1] = Inf(-1)
                      THEN cardinality - 1 ELSE cardinality
    /\ contrib' = Append(contrib, [buckets |-> buckets,
                                  added |-> cardinality' - entered])
    /\ hi' = hi + 1
    /\ pc' = "rm_hist"
    /\ UNCHANGED <<env, mainLocals, calls, histograms, di, buckets, entered>>

\* line 148: return cardinality
rmReturn ==
    /\ pc = "rm_hist"
    /\ hi > Len(histograms)
    /\ pc' = "rm_return"
    /\ UNCHANGED <<env, mainLocals, calls, cardinality, histograms, di, hi,
                   buckets, entered, contrib>>

rmCardinality ==
    \/ rmEntry
    \/ rmDescHistogram
    \/ rmDescScalar
    \/ rmRead
    \/ rmPanicKind
    \/ rmHistAdd
    \/ rmHistDec
    \/ rmPanicIndex
    \/ rmHistLast
    \/ rmHistFirst
    \/ rmReturn

(* ------------------------- version strings ----------------------------- *)
\* A version string: a word prefix, dotted numeric segments, and the tokens
\* that follow them ("go1.17 X:regabi" has prefix "go", segments 1.17 and
\* the rest " ", "X:regabi").
VersionString(prefix, segs, rest) ==
    [prefix |-> prefix, segs |-> segs, rest |-> rest]

\* The values runtime.Version() takes in the model.
RuntimeVersions ==
    {VersionString("go", <<1, 17>>, <<>>),
     VersionString("go", <<1, 17>>, <<" ", "X:regabi">>),
     VersionString("devel", <<>>, <<" ", "+a1b2c3">>)}

\* The values os.Args[1] takes in the model.
GivenVersions ==
    {VersionString("go", <<1, 17, 0>>, <<>>),
     VersionString("go", <<1, 18>>, <<>>),
     VersionString("latest", <<>>, <<>>)}

\* strings.TrimPrefix(s, "go")
TrimPrefixGo(s) ==
    IF s.prefix = "go" THEN VersionString("", s.segs, s.rest) ELSE s

\* strings.Split(s, " ")[0]
SplitSpaceFirst(s) ==
    LET k == IndexRune(s.rest, " ")
    IN IF k < 0 THEN s ELSE VersionString(s.prefix, s.segs, SubSeq(s.rest, 1, k))

\* version.NewVersion accepts dotted numbers only.
ParsesAsVersion(s) == s.prefix = "" /\ Len(s.segs) > 0 /\ s.rest = <<>>

\* version.NewVersion(s).Segments(): at least three segments, zero-padded.
NewVersion(s) ==
    [k \in 1..(IF Len(s.segs) < 3 THEN 3 ELSE Len(s.segs)) |->
        IF k <= Len(s.segs) THEN s.segs[k] ELSE 0]

\* gv.Equal(tv)
VersionEqual(a, b) == a = b

(* ------------------------ name table rendering ------------------------- *)
\* The exposition triple of a runtime name: namespace, subsystem, name.
PromTriple(name) ==
    [ns |-> "go", ss |-> "m" \o name[2], n |-> name[Len(name)]]

\* The static naming tables: every name has its triple and is exported or not.
PromTables == [AllNames -> BOOLEAN]

\* internal.RuntimeMetricsToProm(&d): namespace, subsystem, name, ok.
RuntimeMetricsToProm(d) ==
    [ns |-> PromTriple(d.Name).ns, ss |-> PromTriple(d.Name).ss,
     n |-> PromTriple(d.Name).n, ok |-> promTable[d.Name]]

\* prometheus.BuildFQName(namespace, subsystem, name)
BuildFQName(ns, ss, n) ==
    IF n = "" THEN ""
    ELSE IF ns # "" /\ ss # "" THEN ns \o "_" \o ss \o "_" \o n
    ELSE IF ns # "" THEN ns \o "_" \o n
    ELSE IF ss # "" THEN ss \o "_" \o n
    ELSE n

\* Mutation of rm2prom: the ok result is ignored.
rm2prom_IgnoresOk(d) ==
    LET r == RuntimeMetricsToProm(d)
    IN BuildFQName(r.ns, r.ss, r.n)

\* template function rm2prom, lines 152-158
rm2prom(d) ==
    LET r == RuntimeMetricsToProm(d)
    IN IF ~r.ok THEN "" ELSE BuildFQName(r.ns, r.ss, r.n)

\* template lines 170-177: one entry per description whose translation is
\* not the empty string.
RECURSIVE expectedRuntimeMetrics(_)
expectedRuntimeMetrics(descs) ==
    IF descs = <<>> THEN <<>>
    ELSE LET trans == rm2prom(Head(descs))
         IN (IF trans # ""
             THEN <<[key |-> Head(descs).Name, val |-> trans]>>
             ELSE <<>>) \o expectedRuntimeMetrics(Tail(descs))

(* -------------------------------- main --------------------------------- *)
\* lines 38-45: the given version, or the tool version when there is no
\* single argument.
mainArgs ==
    /\ pc = "start"
    /\ toolVersion' = runtimeVersion
    /\ givenVersion' = IF Len(osArgs) # 1 THEN runtimeVersion ELSE osArgs[1]
    /\ pc' = "parse_given"
    /\ UNCHANGED <<env, tv, gv, v, data, buf, file, calls, rmLocals>>

\* lines 49-52: log.Fatal when the given version does not parse.
mainParseGivenFatal ==
    /\ pc = "parse_given"
    /\ ~ParsesAsVersion(TrimPrefixGo(givenVersion))
    /\ pc' = "fatal"
    /\ UNCHANGED <<env, mainLocals, calls, rmLocals>>

\* line 49
mainParseGiven ==
    /\ pc = "parse_given"
    /\ ParsesAsVersion(TrimPrefixGo(givenVersion))
    /\ tv' = NewVersion(TrimPrefixGo(givenVersion))
    /\ pc' = "parse_tool"
    /\ UNCHANGED <<env, givenVersion, toolVersion, gv, v, data, buf, file,
                   calls, rmLocals>>

\* lines 54-58: log.Fatal when the tool version does not parse.
mainParseToolFatal ==
    /\ pc = "parse_tool"
    /\ ~ParsesAsVersion(SplitSpaceFirst(TrimPrefixGo(toolVersion)))
    /\ toolVersion' = SplitSpaceFirst(TrimPrefixGo(toolVersion))
    /\ pc' = "fatal"
    /\ UNCHANGED <<env, givenVersion, tv, gv, v, data, buf, file, calls,
                   rmLocals>>

\* lines 54-55
mainParseTool ==
    /\ pc = "parse_tool"
    /\ ParsesAsVersion(SplitSpaceFirst(TrimPrefixGo(toolVersion)))
    /\ toolVersion' = SplitSpaceFirst(TrimPrefixGo(toolVersion))
    /\ gv' = NewVersion(toolVersion')
    /\ pc' = "check"
    /\ UNCHANGED <<env, givenVersion, tv, v, data, buf, file, calls, rmLocals>>

\* Mutation of mainVersionFatal: a mismatch is logged and the run goes on.
mainVersionFatal_Proceeds ==
    /\ pc = "check"
    /\ ~(gv = tv)
    /\ v' = gv[2]
    /\ pc' = "generate"
    /\ UNCHANGED <<env, givenVersion, toolVersion, tv, gv, data, buf, file,
                   calls, rmLocals>>

\* lines 59-61: log.Fatalf on a version mismatch.
mainVersionFatal ==
    /\ pc = "check"
    /\ ~VersionEqual(gv, tv)
    /\ pc' = "fatal"
    /\ UNCHANGED <<env, mainLocals, calls, rmLocals>>

\* lines 59-63: v := goVersion(gv.Segments()[1])
mainVersionOk ==
    /\ pc = "check"
    /\ VersionEqual(gv, tv)
    /\ v' = gv[2]
    /\ pc' = "generate"
    /\ UNCHANGED <<env, givenVersion, toolVersion, tv, gv, data, buf, file,
                   calls, rmLocals>>

\* lines 68-75: the operands of the struct literal; rmCardinality is called.
mainCall ==
    /\ pc = "generate"
    /\ data' = [Descriptions |-> catalog, GoVersion |-> v, Cardinality |-> 0]
    /\ pc' = "rm_entry"
    /\ UNCHANGED <<env, givenVersion, toolVersion, tv, gv, v, buf, file, calls,
                   rmLocals>>

\* line 75: Cardinality: rmCardinality()
mainReturn ==
    /\ pc = "rm_return"
    /\ data' = [data EXCEPT !.Cardinality = cardinality]
    /\ pc' = "execute"
    /\ UNCHANGED <<env, givenVersion, toolVersion, tv, gv, v, buf, file, calls,
                   rmLocals>>

\* lines 68-79 with the template, lines 162-179
mainExecute ==
    /\ pc = "execute"
    /\ buf' = <<[GoVersion |-> data.GoVersion,
                 expectedRuntimeMetrics |->
                     expectedRuntimeMetrics(data.Descriptions),
                 expectedRuntimeMetricsCardinality |-> data.Cardinality]>>
    /\ pc' = "write"
    /\ UNCHANGED <<env, givenVersion, toolVersion, tv, gv, v, data, file, calls,
                   rmLocals>>

\* goVersion.Abbr, lines 100-102
Abbr(g) == "go1" \o ToString(g)

\* lines 81-91: the formatted source is written to the file.
mainWriteFile ==
    /\ pc = "write"
    /\ file' = <<[name |-> "go_collector_metrics_" \o Abbr(v) \o "_test.go",
                  content |-> buf[1]]>>
    /\ pc' = "done"
    /\ UNCHANGED <<env, givenVersion, toolVersion, tv, gv, v, data, buf, calls,
                   rmLocals>>

\* lines 89-91: log.Fatalf when os.WriteFile fails.
mainWriteFatal ==
    /\ pc = "write"
    /\ pc' = "fatal"
    /\ UNCHANGED <<env, mainLocals, calls, rmLocals>>

(* ----------------------------- the program ----------------------------- *)
\* Values metrics.Read serves for the histogram names of a catalog.
RuntimeValues(c) ==
    {f \in [AllNames -> HistValues] :
        \A k \in 1..MaxDescs :
            (k > Len(c) \/ c[k].Kind # KindFloat64Histogram)
                => f[NameOf(k)] = ZeroValue}

InitLocals ==
    /\ givenVersion = VersionString("", <<>>, <<>>)
    /\ toolVersion = VersionString("", <<>>, <<>>)
    /\ tv = <<>>
    /\ gv = <<>>
    /\ v = 0
    /\ cardinality = 0
    /\ histograms = <<>>
    /\ di = 0
    /\ hi = 0
    /\ buckets = <<>>
    /\ entered = 0
    /\ contrib = <<>>
    /\ results = <<>>
    /\ data = [Descriptions |-> <<>>, GoVersion |-> 0, Cardinality |-> 0]
    /\ buf = <<>>
    /\ file = <<>>

\* The generator run from its command line.
Init ==
    /\ osArgs \in {<<>>} \cup {<<g>> : g \in GivenVersions}
    /\ runtimeVersion \in RuntimeVersions
    /\ catalog \in Catalogs
    /\ rtValues \in RuntimeValues(catalog)
    /\ promTable \in PromTables
    /\ pc = "start"
    /\ InitLocals

Next ==
    \/ mainArgs
    \/ mainParseGivenFatal
    \/ mainParseGiven
    \/ mainParseToolFatal
    \/ mainParseTool
    \/ mainVersionFatal
    \/ mainVersionOk
    \/ mainCall
    \/ rmCardinality
    \/ mainReturn
    \/ mainExecute
    \/ mainWriteFile
    \/ mainWriteFatal

Spec == Init /\ [][Next]_vars

(* ------------------ rmCardinality invoked twice in a row ---------------- *)
\* The first invocation returns; the same snapshot is used again.
callerFirstReturn ==
    /\ pc = "rm_return"
    /\ Len(results) = 0
    /\ results' = Append(results, cardinality)
    /\ pc' = "rm_entry"
    /\ UNCHANGED <<env, mainLocals, rmLocals>>

\* The second invocation returns.
callerSecondReturn ==
    /\ pc = "rm_return"
    /\ Len(results) = 1
    /\ results' = Append(results, cardinality)
    /\ pc' = "done"
    /\ UNCHANGED <<env, mainLocals, rmLocals>>

InitCalc ==
    /\ osArgs = <<>>
    /\ runtimeVersion = VersionString("go", <<1, 17>>, <<>>)
    /\ catalog \in Catalogs
    /\ rtValues \in RuntimeValues(catalog)
    /\ promTable = [name \in AllNames |-> TRUE]
    /\ pc = "rm_entry"
    /\ InitLocals

NextCalc ==
    \/ rmCardinality
    \/ callerFirstReturn
    \/ callerSecondReturn

SpecCalc == InitCalc /\ [][NextCalc]_vars

(* ------------------------------ properties ----------------------------- *)
IsHistogram(d) == d.Kind = KindFloat64Histogram

NonHistogramCount(c) == Cardinality({k \in 1..Len(c) : ~IsHistogram(c[k])})

HistogramCount(c) == Cardinality({k \in 1..Len(c) : IsHistogram(c[k])})

\* The boundaries the fold sees for a description, from what the runtime serves.
BucketsServed(d) ==
    RuntimeMetricsBucketsForUnit(
        rtValues[d.Name].Buckets,
        SliceFrom(d.Name, IndexRune(d.Name, ":") + 1))

\* A histogram description the runtime serves no usable boundaries for.
Defective(d) ==
    /\ IsHistogram(d)
    /\ \/ rtValues[d.Name].kind # KindFloat64Histogram
       \/ Len(BucketsServed(d)) < 1

\* The closed form of a non-empty boundary array's series.
SeriesOfBuckets(b) ==
    Len(b) + 3 - 1
        - (IF b[Len(b)] = Inf(1) THEN 1 ELSE 0)
        - (IF b[1] = Inf(-1) THEN 1 ELSE 0)

SeriesOfDescription(d) ==
    IF IsHistogram(d) THEN SeriesOfBuckets(BucketsServed(d)) ELSE 1

\* The series of the descriptions of c whose names are in keep.
RECURSIVE SeriesOfCatalog(_, _)
SeriesOfCatalog(c, keep) ==
    IF c = <<>> THEN 0
    ELSE (IF Head(c).Name \in keep THEN SeriesOfDescription(Head(c)) ELSE 0)
            + SeriesOfCatalog(Tail(c), keep)

RECURSIVE SumAdded(_)
SumAdded(h) == IF h = <<>> THEN 0 ELSE Head(h).added + SumAdded(Tail(h))

InfinityFree(b) == \A k \in 1..Len(b) : b[k] \notin {Inf(1), Inf(-1)}

\* [-Inf, b1, ..., bn, +Inf] with n >= 1
IsWrapped(b) == Len(b) >= 3 /\ b[1] = Inf(-1) /\ b[Len(b)] = Inf(1)

Wrap(b) == <<Inf(-1)>> \o b \o <<Inf(1)>>

Returned == pc = "rm_return"

\* C1: whenever rmCardinality returns, the total is the number of
\* non-histogram descriptions plus, per histogram, len + 3 - 1 - [last is
\* +Inf] - [first is -Inf]; an infinity-free array of n+1 boundaries adds
\* n+3 and [-Inf, b1, b2, +Inf] adds 4.
C1_CardinalityFormula ==
    /\ Returned =>
         /\ Len(contrib) = HistogramCount(catalog)
         /\ cardinality = SeriesOfCatalog(catalog, AllNames)
         /\ cardinality = NonHistogramCount(catalog) + SumAdded(contrib)
    /\ \A k \in DOMAIN contrib :
         LET b == contrib[k].buckets
         IN /\ b = BucketsServed(histograms[k])
            /\ contrib[k].added = SeriesOfBuckets(b)
            /\ InfinityFree(b) => contrib[k].added = (Len(b) - 1) + 3
            /\ (Len(b) = 4 /\ b[1] = Inf(-1) /\ b[4] = Inf(1))
                  => contrib[k].added = 4

C1_Witness ==
    /\ Returned
    /\ NonHistogramCount(catalog) >= 1
    /\ \E k \in DOMAIN contrib :
         /\ Len(contrib[k].buckets) = 4
         /\ contrib[k].buckets[1] = Inf(-1)
         /\ contrib[k].buckets[4] = Inf(1)
    /\ cardinality = 5

\* C2 as stated: a histogram with boundaries [-Inf, b1, ..., bn, +Inf],
\* n >= 1, adds exactly n+3 series.
C2_WrappedAddsNPlus3 ==
    \A k \in DOMAIN contrib :
        IsWrapped(contrib[k].buckets)
            => contrib[k].added = (Len(contrib[k].buckets) - 2) + 3

\* C2 amended: a histogram with boundaries [-Inf, b1, ..., bn, +Inf],
\* n >= 1, adds exactly n+2 series.
C2_WrappedAddsNPlus2 ==
    \A k \in DOMAIN contrib :
        IsWrapped(contrib[k].buckets)
            => contrib[k].added = (Len(contrib[k].buckets) - 2) + 2

C2_Witness ==
    /\ Returned
    /\ \E k \in DOMAIN contrib :
         /\ IsWrapped(contrib[k].buckets)
         /\ Len(contrib[k].buckets) = 4
         /\ contrib[k].added = 4

\* C3: wrapping an infinity-free boundary array with a leading -Inf and a
\* trailing +Inf leaves what the histogram adds unchanged, and the total is
\* the non-histogram count plus what the histograms add.
C3_WrappingKeepsContribution ==
    /\ \A i, j \in DOMAIN contrib :
         (InfinityFree(contrib[i].buckets)
            /\ contrib[j].buckets = Wrap(contrib[i].buckets))
            => contrib[j].added = contrib[i].added
    /\ Returned => cardinality = NonHistogramCount(catalog) + SumAdded(contrib)

C3_Witness ==
    /\ Returned
    /\ \E i, j \in DOMAIN contrib :
         /\ Len(contrib[i].buckets) = 2
         /\ InfinityFree(contrib[i].buckets)
         /\ contrib[j].buckets = Wrap(contrib[i].buckets)
         /\ contrib[i].added = 4
         /\ contrib[j].added = 4

\* C4: the first loop has counted exactly the non-histogram descriptions it
\* has passed, one each whatever their kind, name or unit; a catalog without
\* histograms returns its length.
C4_ScalarsCountOneEach ==
    /\ pc = "rm_descs"
         => cardinality = NonHistogramCount(SubSeq(catalog, 1, di - 1))
    /\ (Returned /\ HistogramCount(catalog) = 0) => cardinality = Len(catalog)

C4_Witness ==
    /\ Returned
    /\ HistogramCount(catalog) = 0
    /\ \E i, j \in 1..Len(catalog) :
         catalog[i].Kind = KindUint64 /\ catalog[j].Kind = KindFloat64
    /\ cardinality = Len(catalog)

Exported == {name \in AllNames : promTable[name]}

Excluded == {name \in AllNames : ~promTable[name]}

\* C5: the total handed to the template and written to the file is the
\* series of the exported descriptions plus the series of the excluded ones:
\* it is a function of the catalog and the boundaries alone, whatever the
\* naming table maps or excludes.
C5_TotalIgnoresNamingTable ==
    /\ pc \in {"execute", "write", "done"}
         => data.Cardinality = SeriesOfCatalog(catalog, Exported)
                                 + SeriesOfCatalog(catalog, Excluded)
    /\ file # <<>>
         => file[1].content.expectedRuntimeMetricsCardinality
              = SeriesOfCatalog(catalog, Exported)
                  + SeriesOfCatalog(catalog, Excluded)

C5_Witness ==
    /\ pc = "done"
    /\ file # <<>>
    /\ \E i, j \in 1..Len(catalog) :
         /\ ~IsHistogram(catalog[i]) /\ catalog[i].Name \in Excluded
         /\ IsHistogram(catalog[j]) /\ catalog[j].Name \in Excluded
    /\ file[1].content.expectedRuntimeMetricsCardinality >= 4

\* C6: the rendered name table has exactly one entry for every description
\* the translator does not exclude and none for an excluded one; an entry is
\* keyed by the runtime name and holds the translated exposition name.
C6_NameTableIffNotExcluded ==
    buf # <<>> =>
        LET t == buf[1].expectedRuntimeMetrics
        IN /\ \A k \in 1..Len(catalog) :
                LET r == RuntimeMetricsToProm(catalog[k])
                    hits == {e \in DOMAIN t : t[e].key = catalog[k].Name}
                IN /\ Cardinality(hits) = IF r.ok THEN 1 ELSE 0
                   /\ \A e \in hits : t[e].val = BuildFQName(r.ns, r.ss, r.n)
           /\ \A e \in DOMAIN t :
                \E k \in 1..Len(catalog) : t[e].key = catalog[k].Name
           /\ file # <<>> => file[1].content.expectedRuntimeMetrics = t

C6_Witness ==
    /\ pc = "done"
    /\ file # <<>>
    /\ Len(catalog) = 2
    /\ Len(file[1].content.expectedRuntimeMetrics) = 1
    /\ file[1].content.expectedRuntimeMetrics[1].key = catalog[2].Name
    /\ file[1].content.expectedRuntimeMetrics[1].val = "go_m2_objects"

\* C7: with a histogram whose boundaries are empty or missing from the read
\* result, rmCardinality never returns, nothing is rendered or written, and
\* the run can only end in a panic or a fatal exit.
C7_DefectiveHistogramAborts ==
    (\E k \in 1..Len(catalog) : Defective(catalog[k])) =>
        /\ pc \notin {"rm_return", "execute", "write", "done"}
        /\ data.Cardinality = 0
        /\ buf = <<>>
        /\ file = <<>>
        /\ ~ENABLED Next => pc \in {"panic", "fatal"}

C7_Witness ==
    /\ pc = "panic"
    /\ hi <= Len(histograms)
    /\ histograms[hi].Value.kind = KindFloat64Histogram
    /\ buckets = <<>>
    /\ cardinality > 0
    /\ file = <<>>

\* The version main compares against the running one.
Requested == IF Len(osArgs) # 1 THEN runtimeVersion ELSE osArgs[1]

VersionsAgree ==
    /\ ParsesAsVersion(TrimPrefixGo(Requested))
    /\ ParsesAsVersion(SplitSpaceFirst(TrimPrefixGo(runtimeVersion)))
    /\ NewVersion(TrimPrefixGo(Requested))
         = NewVersion(SplitSpaceFirst(TrimPrefixGo(runtimeVersion)))

CoreEntered ==
    \/ pc \in {"rm_entry", "rm_descs", "rm_hist", "rm_dec", "rm_last",
               "rm_first", "rm_return", "panic", "execute", "write", "done"}
    \/ data.Descriptions # <<>>
    \/ buf # <<>>
    \/ file # <<>>

\* C8: rmCardinality runs, the template is executed and a file is written
\* only when the requested and the running version are equal; on a mismatch
\* the run can only end in the fatal exit, the core never entered.
C8_VersionCheckPrecedesCore ==
    /\ CoreEntered => VersionsAgree
    /\ (~VersionsAgree /\ ~ENABLED Next) => (pc = "fatal" /\ ~CoreEntered)

C8_Witness ==
    /\ pc = "done"
    /\ file # <<>>
    /\ Len(osArgs) = 1
    /\ osArgs[1] # runtimeVersion
    /\ file[1].name = "go_collector_metrics_go117_test.go"

\* C9: two invocations in a row on the same snapshot return the same total;
\* every invocation starts its running total from 0.
C9_Idempotent ==
    /\ Len(results) = 2 => results[1] = results[2]
    /\ (pc = "rm_descs" /\ di = 1) => cardinality = 0

C9_Witness ==
    /\ Len(results) = 2
    /\ results[2] >= 3
    /\ HistogramCount(catalog) >= 1

\* The arrays that reach the minimum: [-Inf, +Inf], [-Inf] and [+Inf].
MinimalArrays == {<<Inf(-1), Inf(1)>>, <<Inf(-1)>>, <<Inf(1)>>}

\* C10: the running total is never negative; every finished histogram
\* iteration has added at least 2, exactly 2 for [-Inf, +Inf], [-Inf] and
\* [+Inf]; the returned total is at least S + 2*H.
C10_AtLeastTwoPerHistogram ==
    /\ cardinality >= 0
    /\ \A k \in DOMAIN contrib :
         /\ contrib[k].added >= 2
         /\ contrib[k].buckets \in MinimalArrays => contrib[k].added = 2
    /\ Returned
         => cardinality >= NonHistogramCount(catalog)
                             + 2 * HistogramCount(catalog)

C10_Witness ==
    /\ Returned
    /\ \E k \in DOMAIN contrib :
         contrib[k].buckets = <<Inf(-1), Inf(1)>> /\ contrib[k].added = 2
    /\ \E k \in DOMAIN contrib :
         contrib[k].buckets = <<Inf(1)>> /\ contrib[k].added = 2
    /\ cardinality = 2 * HistogramCount(catalog)
====
